---- MODULE Spec2Model ----
(***************************************************************************)
(* The poll-dedupe-persist loop of the research-paper bot.                 *)
(*                                                                         *)
(*   Spec      app.py: the scheduler thread (run_scheduled_bot) and a      *)
(*             /fetch_and_log request running concurrently over one SQLite *)
(*             table, with a valid configuration and short API responses.  *)
(*   SpecRun   app.py: scheduled and manual runs one after the other, over *)
(*             every API response up to MaxLen results, malformed results  *)
(*             and storage failures included, with the history of each run *)
(*             (fetch_failed, fetched, storage_failed, pre_len) recorded.  *)
(*   SpecSched app.py: the scheduler and the request handlers over every   *)
(*             content of config.json, keyword edits included.             *)
(*   SpecStore app.py: insert_paper / get_all_papers called directly.      *)
(*   SpecOps   app.py: runs, keyword saves and listings, one after another.*)
(*   SpecMain  main.py: the stand-alone loop over Airtable or the CSV file.*)
(***************************************************************************)
EXTENDS Integers, Sequences, FiniteSets, TLC

VARIABLES
    papers,                  \* app.py: rows of the SQLite table `papers`, in rowid order
    config,                  \* contents of config.json
    now,                     \* the wall clock read by datetime.now(), in hours
    last_run,                \* contents of last_run_timestamp.txt (<<>> while absent)
    pc,                      \* where each thread of control stands
    run,                     \* per thread: the locals of the run it is executing
    sleep_duration_seconds,  \* local of run_scheduled_bot (-1 while unbound)
    wake_at,                 \* when the time.sleep of the scheduler returns, in seconds
    requests,                \* /fetch_and_log requests served so far
    trace,                   \* SpecStore: the direct insert_paper calls made, newest last
    listing,                 \* SpecStore: what the last get_all_papers call returned
    airtable,                \* main.py: records of the Airtable table
    csv_file,                \* main.py: rows of logged_papers.csv
    airtable_logger          \* main.py: whether AirtableLogger was constructed

vars == <<papers, config, now, last_run, pc, run, sleep_duration_seconds, wake_at,
          requests, trace, listing, airtable, csv_file, airtable_logger>>

(***************************************************************************)
(* Bounds of the model.                                                    *)
(***************************************************************************)
MaxClock == 1        \* the clock runs from 0 to MaxClock hours
MaxLen == 2          \* SpecRun: most results one API response holds
ShortLen == 1        \* Spec, SpecSched: most results one API response holds
MaxRequests == 1     \* most /fetch_and_log requests
MaxCalls == 3        \* SpecStore: most direct insert_paper calls

(***************************************************************************)
(* Program constants.                                                      *)
(***************************************************************************)
DefaultSleepHours == 4     \* config.get("sleep_duration_hours", 4)
DefaultMaxResults == 10    \* config.get("arxiv_max_results_per_run", 10)
SecondsPerHour == 3600     \* sleep_duration_hours * 3600

Min(a, b) == IF a < b THEN a ELSE b

(***************************************************************************)
(* Raw results of the external search client (arxiv.Result).  An entry id  *)
(* is a URL, modelled as the sequence of its '/'-separated segments; a     *)
(* publication time is a number of hours.  A missing field is None in      *)
(* Python: NoneStr for a title, the empty path for an entry id and a       *)
(* negative number for a publication time.                                 *)
(***************************************************************************)
NoneStr == "<None>"
NonePath == <<>>

rA == [title |-> "tA", entry_id |-> <<"abs", "A">>, published |-> 10]
rB == [title |-> "tB", entry_id |-> <<"abs", "B">>, published |-> 9]
rA2 == [title |-> "tA", entry_id |-> <<"math", "A">>, published |-> 10]
rNoTitle == [title |-> NoneStr, entry_id |-> <<"abs", "C">>, published |-> 9]
rNoId == [title |-> "tC", entry_id |-> NonePath, published |-> 9]
rNoPub == [title |-> "tC", entry_id |-> <<"abs", "C">>, published |-> -1]

RawSet == {rA, rB, rA2, rNoTitle, rNoId, rNoPub}

\* A result that carries every required field.
WellFormed(raw) ==
    raw.title # NoneStr /\ raw.entry_id # NonePath /\ raw.published >= 0

\* The finite sequences over raws the client can yield under a max_results cap.
Responses(raws, max_results, len) ==
    UNION {[1..n -> raws] : n \in 0..Min(max_results, len)}

(***************************************************************************)
(* Text.  strftime('%Y-%m-%d %H:%M:%S') and isoformat() produce fixed-width*)
(* zero-padded digit strings; SQLite compares TEXT byte by byte.           *)
(***************************************************************************)
strftime(d) == <<d \div 10, d % 10>>
isoformat(d) == <<d \div 10, d % 10>>

RECURSIVE TextLess(_, _)
TextLess(s, t) ==
    IF s = <<>> THEN t # <<>>
    ELSE IF t = <<>> THEN FALSE
    ELSE IF Head(s) # Head(t) THEN Head(s) < Head(t)
    ELSE TextLess(Tail(s), Tail(t))

Last(s) == s[Len(s)]

(***************************************************************************)
(* Record Normalizer: the paper_data dict literal of perform_search_and_log*)
(***************************************************************************)
\* paper.published.strftime / paper.entry_id.split on None: AttributeError.
NormalizeRaises(raw) == raw.published < 0 \/ raw.entry_id = NonePath

paper_data(raw, t) ==
    [Title |-> raw.title,
     Published_Date |-> strftime(raw.published),
     ArXiv_URL |-> raw.entry_id,
     ArXiv_ID |-> Last(raw.entry_id),
     Timestamp |-> isoformat(t)]

NoData == [Title |-> NoneStr, Published_Date |-> <<>>, ArXiv_URL |-> NonePath,
           ArXiv_ID |-> NoneStr, Timestamp |-> <<>>]

(***************************************************************************)
(* The relational store: table `papers` of init_db and insert_paper.       *)
(* fault is what the storage layer does to this call: "none", "connect"    *)
(* (sqlite3.connect raises, outside the try) or "execute" (the INSERT or   *)
(* the commit raises something that is no IntegrityError).                 *)
(***************************************************************************)
Faults == {"none", "connect", "execute"}

\* title TEXT NOT NULL ... arxiv_id TEXT NOT NULL
NotNullViolation(pd) ==
    \/ pd.Title = NoneStr
    \/ pd.ArXiv_ID = NoneStr
    \/ pd.ArXiv_URL = NonePath

\* Mutant: the UNIQUE constraint on arxiv_id left out of the schema.
UniqueViolation_UrlOnly(table, pd) ==
    \E i \in DOMAIN table : table[i].arxiv_url = pd.ArXiv_URL

\* Mutant: no UNIQUE constraint in the schema at all.
UniqueViolation_None(table, pd) == FALSE

\* arxiv_url TEXT NOT NULL UNIQUE, arxiv_id TEXT NOT NULL UNIQUE
UniqueViolation(table, pd) ==
    \E i \in DOMAIN table :
        table[i].arxiv_url = pd.ArXiv_URL \/ table[i].arxiv_id = pd.ArXiv_ID

\* id INTEGER PRIMARY KEY AUTOINCREMENT: no row is ever deleted, so the next
\* rowid is one past the number of rows.
NewRow(table, pd) ==
    [id |-> Len(table) + 1,
     title |-> pd.Title,
     published_date |-> pd.Published_Date,
     arxiv_url |-> pd.ArXiv_URL,
     arxiv_id |-> pd.ArXiv_ID,
     timestamp |-> pd.Timestamp]

\* Mutant: a conflicting row does not stop the INSERT.
InsertOutcome_NoUnique(table, pd, fault) ==
    IF fault = "connect" THEN "Raised"
    ELSE IF fault = "execute" THEN "Error"
    ELSE IF NotNullViolation(pd) THEN "IntegrityError"
    ELSE "Inserted"

\* Which branch of insert_paper the call takes.
InsertOutcome(table, pd, fault) ==
    IF fault = "connect" THEN "Raised"
    ELSE IF fault = "execute" THEN "Error"
    ELSE IF NotNullViolation(pd) \/ UniqueViolation(table, pd) THEN "IntegrityError"
    ELSE "Inserted"

\* Mutant: INSERT OR REPLACE, a conflicting row gives way to the new one.
insert_paper_Replace(table, pd, fault) ==
    LET outcome == InsertOutcome_NoUnique(table, pd, fault)
        kept == SelectSeq(table, LAMBDA row : /\ row.arxiv_url # pd.ArXiv_URL
                                              /\ row.arxiv_id # pd.ArXiv_ID)
    IN  [outcome |-> outcome,
         ret |-> (outcome = "Inserted"),
         table |-> IF outcome = "Inserted" THEN Append(kept, NewRow(table, pd)) ELSE table]

\* insert_paper: the value returned and the table afterwards.
insert_paper(table, pd, fault) ==
    LET outcome == InsertOutcome(table, pd, fault) IN
    [outcome |-> outcome,
     ret |-> (outcome = "Inserted"),
     table |-> IF outcome = "Inserted" THEN Append(table, NewRow(table, pd)) ELSE table]

(***************************************************************************)
(* config.json: load_config, config.get and save_keywords_route.           *)
(* kind is "dict" (a JSON object), "nondict" (valid JSON, not an object),  *)
(* "missing" (no file) or "badjson".  sleep_duration_hours 0 stands for an *)
(* absent key.                                                             *)
(***************************************************************************)
Keywords == {<<>>, <<"k1">>, <<"k2">>}

EmptyDict == [kind |-> "dict", arxiv_keywords |-> <<>>, sleep_duration_hours |-> 0]

ConfigFiles ==
    {[kind |-> "dict", arxiv_keywords |-> k, sleep_duration_hours |-> 1] : k \in Keywords}
    \cup {[kind |-> k, arxiv_keywords |-> <<>>, sleep_duration_hours |-> 0] :
            k \in {"nondict", "missing", "badjson"}}

\* app.py load_config: {} when the file is missing or unparsable.
load_config(file) ==
    IF file.kind \in {"missing", "badjson"} THEN EmptyDict ELSE file

\* config.get(...) on something that is no dict: AttributeError.
GetRaises(cfg) == cfg.kind # "dict"

get_sleep_duration_hours(cfg) ==
    IF cfg.sleep_duration_hours = 0 THEN DefaultSleepHours ELSE cfg.sleep_duration_hours

\* The form field of /save_keywords, already cut at its commas.
FormInputs == {<<"">>, <<"k1">>, <<" k2 ">>, <<"k1", "">>}

strip(s) == IF s = " k2 " THEN "k2" ELSE s

\* [kw.strip() for kw in new_keywords_str.split(',') if kw.strip()]
RECURSIVE new_keywords_list(_)
new_keywords_list(pieces) ==
    IF pieces = <<>> THEN <<>>
    ELSE IF strip(Head(pieces)) = "" THEN new_keywords_list(Tail(pieces))
    ELSE <<strip(Head(pieces))>> \o new_keywords_list(Tail(pieces))

(***************************************************************************)
(* Threads of control and the locals of a run.                             *)
(***************************************************************************)
AppThreads == {"sched", "manual"}
Threads == AppThreads \cup {"main"}

NoRun ==
    [arxiv_keywords |-> <<>>,           \* the keyword list the run was given
     queried |-> FALSE,                 \* the external client was called
     fetch_failed |-> FALSE,            \* history: client.results raised
     papers_found |-> <<>>,             \* results the for loop has still to take
     fetched |-> <<>>,                  \* history: what search_arxiv returned
     paper_data |-> NoData,             \* the dict built for the result taken
     papers_logged_this_run |-> 0,
     storage_failed |-> FALSE,          \* history: a write failed for a non-duplicate reason
     raised |-> "no",                   \* the exception in flight: "malformed" / "storage"
     pre_len |-> 0]                     \* history: rows in the table when the fetch returned

ValidConfig == [kind |-> "dict", arxiv_keywords |-> <<"k1">>, sleep_duration_hours |-> 1]

\* The state once init_db has run and the scheduler thread has been started.
AppStart == [t \in Threads |-> CASE t = "sched" -> "load"
                                  [] t = "manual" -> "idle"
                                  [] OTHER -> "off"]

InitWith(files, start) ==
    /\ papers = <<>>
    /\ config \in files
    /\ now = 0
    /\ last_run = <<>>
    /\ pc = start
    /\ run = [t \in Threads |-> NoRun]
    /\ sleep_duration_seconds = -1
    /\ wake_at = 0
    /\ requests = 0
    /\ trace = <<>>
    /\ listing = <<>>
    /\ airtable = <<>>
    /\ csv_file = <<>>
    /\ airtable_logger = FALSE

Init == InitWith({ValidConfig}, AppStart)

mainVars == <<airtable, csv_file, airtable_logger>>
storeVars == <<trace, listing>>

\* datetime.now() is non-decreasing.
Tick ==
    /\ now < MaxClock
    /\ now' = now + 1
    /\ UNCHANGED <<papers, config, last_run, pc, run, sleep_duration_seconds, wake_at,
                   requests, storeVars, mainVars>>

\* Mutant: run_scheduled_bot without the `if not arxiv_keywords` test.
SchedLoad_NoKeywordTest ==
    /\ pc["sched"] = "load"
    /\ LET cfg == load_config(config) IN
       IF GetRaises(cfg)
       THEN /\ pc' = [pc EXCEPT !["sched"] = "finally"]
            /\ UNCHANGED <<run, sleep_duration_seconds>>
       ELSE /\ sleep_duration_seconds' = get_sleep_duration_hours(cfg) * SecondsPerHour
            /\ pc' = [pc EXCEPT !["sched"] = "search"]
            /\ run' = [run EXCEPT !["sched"].arxiv_keywords = cfg.arxiv_keywords]
    /\ UNCHANGED <<papers, config, now, last_run, wake_at, requests, storeVars, mainVars>>

\* run_scheduled_bot, lines 183-195: load the configuration, then skip or run.
\* config.get on a non-dict raises before sleep_duration_seconds is assigned.
SchedLoad ==
    /\ pc["sched"] = "load"
    /\ LET cfg == load_config(config) IN
       IF GetRaises(cfg)
       THEN /\ pc' = [pc EXCEPT !["sched"] = "finally"]
            /\ UNCHANGED <<run, sleep_duration_seconds>>
       ELSE /\ sleep_duration_seconds' = get_sleep_duration_hours(cfg) * SecondsPerHour
            /\ IF cfg.arxiv_keywords = <<>>
               THEN /\ pc' = [pc EXCEPT !["sched"] = "finally"]
                    /\ UNCHANGED run
               ELSE /\ pc' = [pc EXCEPT !["sched"] = "search"]
                    /\ run' = [run EXCEPT !["sched"].arxiv_keywords = cfg.arxiv_keywords]
    /\ UNCHANGED <<papers, config, now, last_run, wake_at, requests, storeVars, mainVars>>

\* run_scheduled_bot, the finally block: compute the next run time and sleep.
\* With sleep_duration_seconds unbound the block raises and the thread ends.
SchedFinally ==
    /\ pc["sched"] = "finally"
    /\ IF sleep_duration_seconds < 0
       THEN /\ pc' = [pc EXCEPT !["sched"] = "dead"]
            /\ UNCHANGED wake_at
       ELSE /\ pc' = [pc EXCEPT !["sched"] = "sleep"]
            /\ wake_at' = now * SecondsPerHour + sleep_duration_seconds
    /\ UNCHANGED <<papers, config, now, last_run, run, sleep_duration_seconds,
                   requests, storeVars, mainVars>>

\* Mutant: the sleep of the scheduler is cut short.
SchedWake_NoWait ==
    /\ pc["sched"] = "sleep"
    /\ pc' = [pc EXCEPT !["sched"] = "load"]
    /\ UNCHANGED <<papers, config, now, last_run, run, sleep_duration_seconds, wake_at,
                   requests, storeVars, mainVars>>

\* time.sleep returns once the interval has elapsed.
SchedWake ==
    /\ pc["sched"] = "sleep"
    /\ now * SecondsPerHour >= wake_at
    /\ pc' = [pc EXCEPT !["sched"] = "load"]
    /\ UNCHANGED <<papers, config, now, last_run, run, sleep_duration_seconds, wake_at,
                   requests, storeVars, mainVars>>

\* fetch_and_log, lines 235-244: a request arrives.  config.get on a non-dict
\* raises and Flask answers 500; with no keyword the handler only redirects.
FetchAndLog ==
    /\ pc["manual"] = "idle"
    /\ requests < MaxRequests
    /\ requests' = requests + 1
    /\ LET cfg == load_config(config) IN
       IF GetRaises(cfg) \/ cfg.arxiv_keywords = <<>>
       THEN UNCHANGED <<pc, run>>
       ELSE /\ pc' = [pc EXCEPT !["manual"] = "search"]
            /\ run' = [run EXCEPT !["manual"].arxiv_keywords = cfg.arxiv_keywords]
    /\ UNCHANGED <<papers, config, now, last_run, sleep_duration_seconds, wake_at,
                   storeVars, mainVars>>

\* save_keywords_route: load, replace the keyword list, save.
\* Item assignment on something that is no dict raises; the file stays.
save_keywords(file, form) ==
    LET cfg == load_config(file) IN
    IF cfg.kind # "dict" THEN file
    ELSE [cfg EXCEPT !.arxiv_keywords = new_keywords_list(form)]

SaveKeywords ==
    /\ \E form \in FormInputs : config' = save_keywords(config, form)
    /\ config' # config
    /\ UNCHANGED <<papers, now, last_run, pc, run, sleep_duration_seconds, wake_at,
                   requests, storeVars, mainVars>>

\* search_arxiv: the client yields got and then either finishes or raises;
\* what was appended to results before the raise is what is returned.
search_arxiv(got, failed) == got

\* perform_search_and_log, line 135.  The history fields fetch_failed,
\* fetched and pre_len are written only where observed is set.
Search(t, responses, observed) ==
    /\ pc[t] = "search"
    /\ \E got \in responses, failed \in BOOLEAN :
         run' = [run EXCEPT ![t].queried = TRUE,
                            ![t].fetch_failed = observed /\ failed,
                            ![t].papers_found = search_arxiv(got, failed),
                            ![t].fetched = IF observed
                                           THEN search_arxiv(got, failed)
                                           ELSE <<>>,
                            ![t].pre_len = IF observed THEN Len(papers) ELSE 0]
    /\ pc' = [pc EXCEPT ![t] = "loop"]
    /\ UNCHANGED <<papers, config, now, last_run, sleep_duration_seconds, wake_at,
                   requests, storeVars, mainVars>>

\* perform_search_and_log, lines 139-149: the for statement takes the next
\* result and paper_data is built from it.
Normalize(t) ==
    /\ pc[t] = "loop"
    /\ run[t].papers_found # <<>>
    /\ LET raw == Head(run[t].papers_found) IN
       IF NormalizeRaises(raw)
       THEN /\ run' = [run EXCEPT ![t].raised = "malformed",
                                  ![t].papers_found = Tail(@)]
            /\ pc' = [pc EXCEPT ![t] = "raised"]
       ELSE /\ run' = [run EXCEPT ![t].paper_data = paper_data(raw, now),
                                  ![t].papers_found = Tail(@)]
            /\ pc' = [pc EXCEPT ![t] = "insert"]
    /\ UNCHANGED <<papers, config, now, last_run, sleep_duration_seconds, wake_at,
                   requests, storeVars, mainVars>>

\* perform_search_and_log, lines 150-151: one insert_paper call, one
\* transaction.  The history field storage_failed is written only where
\* observed is set.
Insert(t, faults, observed) ==
    /\ pc[t] = "insert"
    /\ \E fault \in faults :
         LET r == insert_paper(papers, run[t].paper_data, fault) IN
         /\ papers' = r.table
         /\ IF r.outcome = "Raised"
            THEN /\ run' = [run EXCEPT ![t].raised = "storage",
                                       ![t].storage_failed = observed]
                 /\ pc' = [pc EXCEPT ![t] = "raised"]
            ELSE /\ run' = [run EXCEPT
                       ![t].papers_logged_this_run = IF r.ret THEN @ + 1 ELSE @,
                       ![t].storage_failed = @ \/ (observed /\ r.outcome = "Error"),
                       ![t].paper_data = NoData]
                 /\ pc' = [pc EXCEPT ![t] = "loop"]
    /\ UNCHANGED <<config, now, last_run, sleep_duration_seconds, wake_at,
                   requests, storeVars, mainVars>>

\* Where a thread goes when perform_search_and_log is left: the finally block
\* of run_scheduled_bot, or the end of the request.
AfterRun(t) == IF t = "sched" THEN "finally" ELSE "idle"

\* perform_search_and_log, lines 153-154: the loop is over;
\* save_last_run_timestamp and return.
Finish(t) ==
    /\ pc[t] = "loop"
    /\ run[t].papers_found = <<>>
    /\ last_run' = strftime(now)
    /\ pc' = [pc EXCEPT ![t] = AfterRun(t)]
    /\ run' = [run EXCEPT ![t] = NoRun]
    /\ UNCHANGED <<papers, config, now, sleep_duration_seconds, wake_at,
                   requests, storeVars, mainVars>>

\* An exception leaves perform_search_and_log: run_scheduled_bot catches it
\* (line 197) and goes on to its finally block; Flask answers 500.
Unwind(t) ==
    /\ pc[t] = "raised"
    /\ pc' = [pc EXCEPT ![t] = AfterRun(t)]
    /\ run' = [run EXCEPT ![t] = NoRun]
    /\ UNCHANGED <<papers, config, now, last_run, sleep_duration_seconds, wake_at,
                   requests, storeVars, mainVars>>

Running(t) == pc[t] \in {"search", "loop", "insert", "raised"}

(***************************************************************************)
(* Spec: the two threads of app.py, interleaved step by step.              *)
(***************************************************************************)
ShortRaws == {rA, rB, rA2}
ShortResponses == Responses(ShortRaws, DefaultMaxResults, ShortLen)

Next ==
    \/ Tick
    \/ SchedLoad
    \/ SchedFinally
    \/ SchedWake
    \/ FetchAndLog
    \/ \E t \in AppThreads : Search(t, ShortResponses, FALSE)
    \/ \E t \in AppThreads : Normalize(t)
    \/ \E t \in AppThreads : Insert(t, Faults, FALSE)
    \/ \E t \in AppThreads : Finish(t)
    \/ \E t \in AppThreads : Unwind(t)

Spec == Init /\ [][Next]_vars

(***************************************************************************)
(* SpecRun: runs one after the other (a request arrives only while the     *)
(* scheduler sleeps, the scheduler wakes only between requests), over      *)
(* every response of up to MaxLen results.                                 *)
(***************************************************************************)
AllResponses == Responses(RawSet, DefaultMaxResults, MaxLen)

NextRun ==
    \/ Tick
    \/ SchedLoad
    \/ SchedFinally
    \/ (~Running("manual") /\ SchedWake)
    \/ (pc["sched"] \in {"sleep", "dead"} /\ FetchAndLog)
    \/ \E t \in AppThreads : Search(t, AllResponses, TRUE)
    \/ \E t \in AppThreads : Normalize(t)
    \/ \E t \in AppThreads : Insert(t, Faults, TRUE)
    \/ \E t \in AppThreads : Finish(t)
    \/ \E t \in AppThreads : Unwind(t)

SpecRun == Init /\ [][NextRun]_vars

(***************************************************************************)
(* SpecSched: every content of config.json, keyword edits at any moment.   *)
(***************************************************************************)
OneResponses == Responses({rA}, DefaultMaxResults, ShortLen)

NextSched ==
    \/ Tick
    \/ SchedLoad
    \/ SchedFinally
    \/ SchedWake
    \/ FetchAndLog
    \/ SaveKeywords
    \/ \E t \in AppThreads : Search(t, OneResponses, FALSE)
    \/ \E t \in AppThreads : Normalize(t)
    \/ \E t \in AppThreads : Insert(t, {"none"}, FALSE)
    \/ \E t \in AppThreads : Finish(t)

SpecSched == InitWith(ConfigFiles, AppStart) /\ [][NextSched]_vars

(***************************************************************************)
(* SpecStore: the store functions called directly, one call at a time.     *)
(***************************************************************************)
\* The dicts perform_search_and_log can hand to insert_paper.
PaperRecords ==
    {paper_data(raw, t) : raw \in {r \in RawSet : ~NormalizeRaises(r)}, t \in 0..MaxClock}

\* ORDER BY published_date DESC: put row into an already sorted list, behind
\* the rows that do not sort after it.
\* Mutant: ORDER BY published_date ASC.
RECURSIVE InsertByPublishedDesc_Asc(_, _)
InsertByPublishedDesc_Asc(row, sorted) ==
    IF sorted = <<>> THEN <<row>>
    ELSE IF TextLess(row.published_date, Head(sorted).published_date)
    THEN <<row>> \o sorted
    ELSE <<Head(sorted)>> \o InsertByPublishedDesc_Asc(row, Tail(sorted))

RECURSIVE InsertByPublishedDesc(_, _)
InsertByPublishedDesc(row, sorted) ==
    IF sorted = <<>> THEN <<row>>
    ELSE IF TextLess(Head(sorted).published_date, row.published_date)
    THEN <<row>> \o sorted
    ELSE <<Head(sorted)>> \o InsertByPublishedDesc(row, Tail(sorted))

RECURSIVE OrderByPublishedDesc(_)
OrderByPublishedDesc(rows) ==
    IF rows = <<>> THEN <<>>
    ELSE InsertByPublishedDesc(Head(rows), OrderByPublishedDesc(Tail(rows)))

\* get_all_papers: SELECT * FROM papers ORDER BY published_date DESC.  scan is
\* the order in which the engine visits the rows, which SQL leaves open and
\* which decides the order of rows with equal published_date.
get_all_papers(table, scan) ==
    OrderByPublishedDesc([i \in 1..Len(table) |-> table[scan[i]]])

StoreInsert ==
    /\ Len(trace) < MaxCalls
    /\ \E pd \in PaperRecords, fault \in Faults :
         LET r == insert_paper(papers, pd, fault) IN
         /\ papers' = r.table
         /\ trace' = Append(trace, [paper_data |-> pd, outcome |-> r.outcome,
                                    ret |-> r.ret, before |-> papers])
    /\ UNCHANGED <<config, now, last_run, pc, run, sleep_duration_seconds, wake_at,
                   requests, listing, mainVars>>

StoreGetAll ==
    /\ \E scan \in Permutations(1..Len(papers)) :
         listing' = get_all_papers(papers, scan)
    /\ UNCHANGED <<papers, config, now, last_run, pc, run, sleep_duration_seconds,
                   wake_at, requests, trace, mainVars>>

NextStore ==
    \/ StoreInsert
    \/ StoreGetAll

SpecStore == Init /\ [][NextStore]_vars

(***************************************************************************)
(* SpecOps: every operation of app.py that touches or reads the table, the *)
(* runs one after the other as in SpecRun: scheduled runs, manual runs,    *)
(* keyword saves and the get_all_papers call of the index route.           *)
(***************************************************************************)
NextOps ==
    \/ Tick
    \/ SchedLoad
    \/ SchedFinally
    \/ (~Running("manual") /\ SchedWake)
    \/ (pc["sched"] \in {"sleep", "dead"} /\ FetchAndLog)
    \/ SaveKeywords
    \/ StoreGetAll
    \/ \E t \in AppThreads : Search(t, ShortResponses, FALSE)
    \/ \E t \in AppThreads : Normalize(t)
    \/ \E t \in AppThreads : Insert(t, Faults, FALSE)
    \/ \E t \in AppThreads : Finish(t)
    \/ \E t \in AppThreads : Unwind(t)

SpecOps == Init /\ [][NextOps]_vars

(***************************************************************************)
(* SpecMain: main.py, the stand-alone bot over Airtable or the CSV file.   *)
(***************************************************************************)
\* main.py load_config: exit(1) when the file is missing or unparsable.
main_load_config_exits(file) == file.kind \in {"missing", "badjson"}

\* main.py paper_data: the ArXiv ID is the whole entry id, nothing is cut off.
main_paper_data(raw, t) ==
    [Title |-> raw.title,
     Published_Date |-> strftime(raw.published),
     ArXiv_URL |-> raw.entry_id,
     ArXiv_ID |-> raw.entry_id,
     Timestamp |-> isoformat(t)]

\* AirtableLogger.record_exists: search_by_value, False when the lookup raises.
record_exists(table, field_value, lookup_fails) ==
    IF lookup_fails THEN FALSE
    ELSE \E i \in DOMAIN table : table[i].ArXiv_ID = field_value

\* AirtableLogger.create_record: the table afterwards; nothing when insert raises.
create_record(table, fields, insert_fails) ==
    IF insert_fails THEN table ELSE Append(table, fields)

\* log_to_csv: append one row; an exception is swallowed.
log_to_csv(rows, fields, write_fails) ==
    IF write_fails THEN rows ELSE Append(rows, fields)

MainStart == [t \in Threads |-> IF t = "main" THEN "start" ELSE "off"]

InitMain == InitWith(ConfigFiles, MainStart)

\* main.py, lines 62-84: read the configuration once, set up the logger.
MainStartup ==
    /\ pc["main"] = "start"
    /\ IF main_load_config_exits(config) \/ GetRaises(config)
          \/ config.arxiv_keywords = <<>>
       THEN /\ pc' = [pc EXCEPT !["main"] = "exited"]
            /\ UNCHANGED <<run, sleep_duration_seconds, airtable_logger>>
       ELSE /\ pc' = [pc EXCEPT !["main"] = "top"]
            /\ run' = [run EXCEPT !["main"].arxiv_keywords = config.arxiv_keywords]
            /\ sleep_duration_seconds' =
                   get_sleep_duration_hours(config) * SecondsPerHour
            /\ airtable_logger' \in BOOLEAN
    /\ UNCHANGED <<papers, config, now, last_run, wake_at, requests, storeVars,
                   airtable, csv_file>>

\* main.py, lines 87-95: an iteration starts and fetches.
MainSearch ==
    /\ pc["main"] = "top"
    /\ \E got \in Responses(RawSet, DefaultMaxResults, MaxLen), failed \in BOOLEAN :
         run' = [run EXCEPT !["main"] =
                    [NoRun EXCEPT !.arxiv_keywords = run["main"].arxiv_keywords,
                                  !.queried = TRUE,
                                  !.fetch_failed = failed,
                                  !.papers_found = search_arxiv(got, failed)]]
    /\ pc' = [pc EXCEPT !["main"] = "loop"]
    /\ UNCHANGED <<papers, config, now, last_run, sleep_duration_seconds, wake_at,
                   requests, storeVars, mainVars>>

\* main.py, lines 96-111: the for statement takes the next result; the
\* existence check (only with an Airtable logger), then the paper_data dict.
\* paper.title[:70] and paper.published.strftime raise on None; the except of
\* line 124 ends the iteration.
MainCheck ==
    /\ pc["main"] = "loop"
    /\ run["main"].papers_found # <<>>
    /\ LET raw == Head(run["main"].papers_found) IN
       \E lookup_fails \in BOOLEAN :
         /\ lookup_fails => airtable_logger
         /\ IF airtable_logger /\ record_exists(airtable, raw.entry_id, lookup_fails)
            THEN IF raw.title = NoneStr
                 THEN /\ run' = [run EXCEPT !["main"].raised = "malformed",
                                            !["main"].papers_found = Tail(@)]
                      /\ pc' = [pc EXCEPT !["main"] = "finally"]
                 ELSE /\ run' = [run EXCEPT !["main"].papers_found = Tail(@)]
                      /\ UNCHANGED pc
            ELSE IF raw.published < 0
                 THEN /\ run' = [run EXCEPT !["main"].raised = "malformed",
                                            !["main"].papers_found = Tail(@)]
                      /\ pc' = [pc EXCEPT !["main"] = "finally"]
                 ELSE /\ run' = [run EXCEPT !["main"].paper_data =
                                                main_paper_data(raw, now),
                                            !["main"].papers_found = Tail(@)]
                      /\ pc' = [pc EXCEPT !["main"] = "write"]
    /\ UNCHANGED <<papers, config, now, last_run, sleep_duration_seconds, wake_at,
                   requests, storeVars, mainVars>>

\* main.py, lines 113-120: create_record counts a record only when it was
\* written; the CSV fallback counts every record.
MainWrite ==
    /\ pc["main"] = "write"
    /\ \E write_fails \in BOOLEAN :
         IF airtable_logger
         THEN /\ airtable' = create_record(airtable, run["main"].paper_data, write_fails)
              /\ run' = [run EXCEPT
                    !["main"].papers_logged_this_run = IF write_fails THEN @ ELSE @ + 1,
                    !["main"].storage_failed = @ \/ write_fails,
                    !["main"].paper_data = NoData]
              /\ UNCHANGED csv_file
         ELSE /\ csv_file' = log_to_csv(csv_file, run["main"].paper_data, write_fails)
              /\ run' = [run EXCEPT
                    !["main"].papers_logged_this_run = @ + 1,
                    !["main"].storage_failed = @ \/ write_fails,
                    !["main"].paper_data = NoData]
              /\ UNCHANGED airtable
    /\ pc' = [pc EXCEPT !["main"] = "loop"]
    /\ UNCHANGED <<papers, config, now, last_run, sleep_duration_seconds, wake_at,
                   requests, storeVars, airtable_logger>>

\* main.py, line 122: the for loop is over.
MainLoopEnd ==
    /\ pc["main"] = "loop"
    /\ run["main"].papers_found = <<>>
    /\ pc' = [pc EXCEPT !["main"] = "finally"]
    /\ UNCHANGED <<papers, config, now, last_run, run, sleep_duration_seconds, wake_at,
                   requests, storeVars, mainVars>>

\* main.py, lines 127-130: the finally block.
MainFinally ==
    /\ pc["main"] = "finally"
    /\ wake_at' = now * SecondsPerHour + sleep_duration_seconds
    /\ pc' = [pc EXCEPT !["main"] = "sleep"]
    /\ UNCHANGED <<papers, config, now, last_run, run, sleep_duration_seconds,
                   requests, storeVars, mainVars>>

\* time.sleep returns and the while loop starts its next iteration.
MainWake ==
    /\ pc["main"] = "sleep"
    /\ now * SecondsPerHour >= wake_at
    /\ pc' = [pc EXCEPT !["main"] = "top"]
    /\ UNCHANGED <<papers, config, now, last_run, run, sleep_duration_seconds, wake_at,
                   requests, storeVars, mainVars>>

NextMain ==
    \/ Tick
    \/ SaveKeywords
    \/ MainStartup
    \/ MainSearch
    \/ MainCheck
    \/ MainWrite
    \/ MainLoopEnd
    \/ MainFinally
    \/ MainWake

SpecMain == InitMain /\ [][NextMain]_vars

(***************************************************************************)
(* Properties.                                                             *)
(***************************************************************************)
StoredIds(table) == {table[i].arxiv_id : i \in DOMAIN table}

OneRowPerKey ==
    \A i, j \in DOMAIN papers :
        i # j => /\ papers[i].arxiv_id # papers[j].arxiv_id
                 /\ papers[i].arxiv_url # papers[j].arxiv_url

\* Every row of the table is still there, unchanged, after the step.
KeepsRows ==
    \A i \in DOMAIN papers : i \in DOMAIN papers' /\ papers'[i] = papers[i]

\* C1: under any interleaving of scheduled and manual runs the papers table
\* holds at most one row per arxiv_id and at most one row per arxiv_url, and
\* no step changes or removes a row that is already stored.
C1_UniqueRows == []OneRowPerKey /\ [][KeepsRows]_vars

\* C1 witness: while both runs are under way, one has stored paper A and the
\* other has reached insert_paper with the same arxiv_id under another URL.
C1_Witness ==
    \E t, u \in AppThreads :
        /\ t # u
        /\ pc[u] = "loop"
        /\ run[u].papers_logged_this_run = 1
        /\ Len(papers) = 1
        /\ papers[1].arxiv_url = rA.entry_id
        /\ pc[t] = "insert"
        /\ run[t].paper_data.ArXiv_URL = rA2.entry_id
        /\ run[t].paper_data.ArXiv_ID = papers[1].arxiv_id

\* C3: a scheduled run and a manual run are never both inside
\* perform_search_and_log.
C3_RunExclusion == ~(Running("sched") /\ Running("manual"))

\* The table after the k-th direct call of the trace.
After(k) == IF k = Len(trace) THEN papers ELSE trace[k + 1].before

\* The storage layer served the call: it inserted or raised IntegrityError.
Served(call) == call.outcome \in {"Inserted", "IntegrityError"}

RowsWithId(table, id) == {i \in DOMAIN table : table[i].arxiv_id = id}

\* C2: insert_paper called twice in a row with the same record, the storage
\* layer serving both calls: the first call returns True when the record has
\* its NOT NULL fields and its arxiv_id was absent, the second returns False
\* on an IntegrityError, the table after the second call is the table after
\* the first, and it holds exactly one row with that arxiv_id.
C2_InsertIdempotent ==
    \A k \in 1..(Len(trace) - 1) :
        LET first == trace[k]
            second == trace[k + 1]
            pd == first.paper_data
        IN  (second.paper_data = pd /\ Served(first) /\ Served(second)) =>
              /\ (~NotNullViolation(pd) /\ pd.ArXiv_ID \notin StoredIds(first.before))
                     => first.ret
              /\ ~second.ret
              /\ second.outcome = "IntegrityError"
              /\ After(k + 1) = After(k)
              /\ ~NotNullViolation(pd)
                     => Cardinality(RowsWithId(After(k + 1), pd.ArXiv_ID)) = 1

\* C2 witness: on a table that already holds another paper, a record is
\* inserted and then offered again and turned down.
C2_Witness ==
    /\ Len(trace) = 3
    /\ trace[2].paper_data = trace[3].paper_data
    /\ trace[2].before # <<>>
    /\ trace[2].ret
    /\ trace[3].outcome = "IntegrityError"
    /\ Len(papers) = 2

\* C4: neither the Airtable table nor the CSV file ever holds two records
\* with the same ArXiv ID.
NoSecondRecord(table) ==
    \A i, j \in DOMAIN table : i # j => table[i].ArXiv_ID # table[j].ArXiv_ID

C4_NoSecondRecord == NoSecondRecord(airtable) /\ NoSecondRecord(csv_file)

\* Ids of the well-formed results the run fetched, ids stored before it, and
\* the point where its for loop has gone through every result.
RunIds(t) ==
    {Last(run[t].fetched[i].entry_id) :
        i \in {j \in DOMAIN run[t].fetched : WellFormed(run[t].fetched[j])}}

PreIds(t) == {papers[i].arxiv_id : i \in 1..run[t].pre_len}

LoopDone(t) == pc[t] = "loop" /\ run[t].papers_found = <<>>

\* C5: when a run of perform_search_and_log has gone through its response R
\* and no write failed for a non-duplicate reason, the stored ids are the ids
\* stored before the run united with the ids of the well-formed results of R;
\* a run whose ids were all stored before adds no row and logs no paper.
C5_RunLevelDedup ==
    \A t \in AppThreads :
        LoopDone(t) =>
          /\ ~run[t].storage_failed
                 => StoredIds(papers) = PreIds(t) \cup RunIds(t)
          /\ RunIds(t) \subseteq PreIds(t)
                 => /\ run[t].papers_logged_this_run = 0
                    /\ Len(papers) = run[t].pre_len

\* C5 witness: a run over the response <<A, B>> on a table that already held
\* A and B ends with two rows and nothing logged.
C5_Witness ==
    \E t \in AppThreads :
        /\ LoopDone(t)
        /\ run[t].fetched = <<rA, rB>>
        /\ run[t].pre_len = 2
        /\ Len(papers) = 2
        /\ run[t].papers_logged_this_run = 0
        /\ ~run[t].storage_failed

SortedDescBy(rows, key(_)) ==
    \A i, j \in DOMAIN rows : i < j => ~TextLess(key(rows[i]), key(rows[j]))

TimestampOf(row) == row.timestamp
PublishedOf(row) == row.published_date

C7_FetchFailureZeroResults ==
    \A t \in AppThreads :
        run[t].fetch_failed =>
          /\ run[t].fetched = <<>>
          /\ run[t].papers_logged_this_run = 0
          /\ Len(papers) = run[t].pre_len

\* How many results the for loop has taken.
Taken(t) == Len(run[t].fetched) - Len(run[t].papers_found)

\* The run is over: its loop is done, or an exception is on its way out.
RunEnded(t) == LoopDone(t) \/ pc[t] = "raised"

\* C8: when a run is over (and the store did not end it), every well-formed
\* result that follows a malformed one in the batch has been offered to the
\* store.
C8_SkipOnMalformed ==
    \A t \in AppThreads :
        (RunEnded(t) /\ run[t].raised # "storage") =>
            \A i, j \in DOMAIN run[t].fetched :
                (/\ i < j
                 /\ ~WellFormed(run[t].fetched[i])
                 /\ WellFormed(run[t].fetched[j])) => j <= Taken(t)

\* C9: no exception escapes the scheduler loop; the thread never ends.
C9_SchedulerNeverStops == pc["sched"] # "dead"

\* C10: a run that starts queries with the keyword set config.json holds at
\* that moment (main.py: the iteration that starts at startup or on waking).
C10_FreshKeywords ==
    [][(pc["main"] \in {"start", "sleep"} /\ pc'["main"] = "top")
          => run'["main"].arxiv_keywords = load_config(config').arxiv_keywords]_vars

\* config.json yields a dict whose keyword list is empty (or no list at all).
EmptyKeywordSet(file) ==
    ~GetRaises(load_config(file)) /\ load_config(file).arxiv_keywords = <<>>

\* The step is thread t taking up a trigger: the scheduler loading its
\* configuration, or a /fetch_and_log request being served.
Triggered(t) ==
    IF t = "sched" THEN pc["sched"] = "load" /\ pc'["sched"] # "load"
    ELSE requests' # requests

\* C11: a trigger taken up with an empty keyword set sends the thread straight
\* past perform_search_and_log with the external client not called and the
\* table as it was; the client is called and insert_paper is reached only in
\* runs that were given at least one keyword.
C11_EmptyKeywordNoOp ==
    /\ [][\A t \in AppThreads :
            (Triggered(t) /\ EmptyKeywordSet(config)) =>
                /\ pc'[t] = AfterRun(t)
                /\ run'[t] = NoRun
                /\ papers' = papers]_vars
    /\ [](\A t \in AppThreads :
            (run[t].queried \/ Running(t)) => run[t].arxiv_keywords # <<>>)

\* C11 witness: the scheduler stored a paper in its first iteration, the
\* keywords were then cleared, and its second iteration (an hour later) has
\* reached the finally block with no run made and the row still the only one.
C11_Witness ==
    /\ pc["sched"] = "finally"
    /\ EmptyKeywordSet(config)
    /\ wake_at = SecondsPerHour
    /\ now = 1
    /\ last_run = strftime(0)
    /\ requests = 0
    /\ Len(papers) = 1

\* C12: a missing, unparsable or keyword-less config.json never ends the
\* process (main.py: the stand-alone bot never exits).
C12_ProcessKeepsRunning == pc["main"] # "exited"

\* C13: a write that fails for a non-duplicate reason does not end the run:
\* once the run is over (no malformed result having ended it) its for loop
\* has taken every result of the batch.
C13_StorageFailurePerRecord ==
    \A t \in AppThreads :
        (run[t].storage_failed /\ RunEnded(t) /\ run[t].raised # "malformed") =>
            Taken(t) = Len(run[t].fetched)

\* C14: in rowid order the timestamps of the stored rows never decrease.
C14_TimestampMonotonic ==
    \A i, j \in DOMAIN papers :
        i < j => ~TextLess(papers[j].timestamp, papers[i].timestamp)

\* The step is an insert_paper call of some run.
InsertStep == \E t \in AppThreads : pc[t] = "insert" /\ pc'[t] # "insert"

\* C15: every step (a step of a scheduled or manual run, a keyword save, a
\* get_all_papers call) leaves each stored row where it is with every field
\* as it was; the table grows by at most one row per step, and a step that
\* is no insert_paper call leaves the table as it was.
C15_StoredPapersImmutable ==
    [][/\ \A i \in DOMAIN papers : i \in DOMAIN papers' /\ papers'[i] = papers[i]
       /\ Len(papers') <= Len(papers) + 1
       /\ ~InsertStep => papers' = papers]_vars

\* C15 witness: two rows are stored, both have been listed, the keywords have
\* been saved anew, a manual request has been served and insert_paper has
\* just turned down a paper whose arxiv_id is stored.
C15_Witness ==
    /\ Len(papers) = 2
    /\ Len(listing) = 2
    /\ config # ValidConfig
    /\ requests = 1
    /\ \E t \in AppThreads :
         /\ pc[t] = "loop"
         /\ run[t].queried
         /\ run[t].papers_logged_this_run = 0

\* The call was turned down because a row with its key is stored.
DuplicateCall(call) ==
    call.outcome = "IntegrityError" /\ UniqueViolation(call.before, call.paper_data)

\* The call failed for another reason: an error of the storage layer, or a
\* constraint other than the UNIQUE ones.
NonDuplicateFailure(call) ==
    \/ call.outcome = "Error"
    \/ call.outcome = "IntegrityError" /\ ~UniqueViolation(call.before, call.paper_data)

\* C16: insert_paper never hands its caller the same value for a duplicate
\* and for a failure that is no duplicate.
C16_ThreeWayOutcome ==
    \A k, l \in DOMAIN trace :
        (DuplicateCall(trace[k]) /\ NonDuplicateFailure(trace[l]))
            => trace[k].ret # trace[l].ret

\* C17: a record with its NOT NULL fields whose entry URL no stored row has
\* is inserted whenever the storage layer serves the call.
C17_DuplicateOnlyOnSameUrl ==
    \A k \in DOMAIN trace :
        LET call == trace[k] IN
        (/\ Served(call)
         /\ ~NotNullViolation(call.paper_data)
         /\ \A i \in DOMAIN call.before :
                call.before[i].arxiv_url # call.paper_data.ArXiv_URL)
            => call.ret

\* C18: the Airtable table never holds two records with the same ArXiv ID,
\* whatever lookups fail.
C18_LookupFailureNoDuplicate == NoSecondRecord(airtable)

\* C19: each write step of main.py raises papers_logged_this_run by the number
\* of records the step added to the backend in use.
C19_CountEqualsAdded ==
    [][pc["main"] = "write" =>
          run'["main"].papers_logged_this_run - run["main"].papers_logged_this_run
              = (Len(airtable') - Len(airtable)) + (Len(csv_file') - Len(csv_file))]_vars

\* What belongs to the scheduler thread.
SchedState == <<pc["sched"], run["sched"], sleep_duration_seconds, wake_at>>

\* The step is one of the /fetch_and_log thread.
ManualStep ==
    \/ requests' # requests
    \/ pc'["manual"] # pc["manual"]
    \/ run'["manual"] # run["manual"]

\* C20: no step of a manual run touches the scheduler's position, locals or
\* wake-up time; the finally block sets the wake-up time to the time of its
\* completion plus the interval loaded for the iteration, nothing moves it
\* while the scheduler sleeps, and the scheduler leaves its sleep only once
\* that time has come.
C20_ScheduleIndependent ==
    [][/\ ManualStep => SchedState' = SchedState
       /\ (pc["sched"] = "finally" /\ pc'["sched"] = "sleep")
              => wake_at' = now * SecondsPerHour + sleep_duration_seconds
       /\ pc["sched"] = "sleep" => wake_at' = wake_at
       /\ (pc["sched"] = "sleep" /\ pc'["sched"] # "sleep")
              => now * SecondsPerHour >= wake_at]_vars

\* C20 witness: the scheduler went to sleep at hour 0 for one hour, a manual
\* run finished at hour 1 and stored a paper, and the scheduler has just
\* woken, at hour 1, for its next iteration.
C20_Witness ==
    /\ pc["sched"] = "load"
    /\ wake_at = SecondsPerHour
    /\ now = 1
    /\ requests = 1
    /\ pc["manual"] = "idle"
    /\ last_run = strftime(1)
    /\ Len(papers) = 1

====
